---- MODULE Spec2Model ----
(***************************************************************************)
(* Model of src/reports/__init__.py: the FaultCodeOneReport and            *)
(* FaultCodeTwoReport classes (time-weighted fault statistics, plot        *)
(* rendering through matplotlib.pyplot, and docx report composition).      *)
(*                                                                         *)
(* Conventions.  Timestamps are whole hours since the first possible       *)
(* sample.  A cell of a column is a sequence: <<>> is NaN / NaT, <<v>> is  *)
(* the value v.  Values that the code rounds to two decimals are kept as   *)
(* integer hundredths (12.5 % is 1250, 100 % is 10000).  A column's dtype  *)
(* is kept beside its cells ("bool", "int64", "float64").                  *)
(***************************************************************************)
EXTENDS Integers, Sequences, FiniteSets, TLC

VARIABLES self, df, df0, op, ret, err, document,
          pc, kind, myfig, image, gcf, figs

vars == <<self, df, df0, op, ret, err, document,
          pc, kind, myfig, image, gcf, figs>>
reportVars == <<self, df, df0, op, ret, err, document>>
renderVars == <<pc, kind, myfig, image, gcf, figs>>

(***************************************************************************)
(* Bounds of the model.                                                    *)
(***************************************************************************)
\* rows of the datasets whose cells are enumerated exhaustively
MaxRows == 2
\* largest gap, in hours, between two successive samples
MaxGap == 2
\* rows of the hourly scenario datasets (flag set on a leading run of rows)
MaxLong == 24
\* sensor readings: missing, or one of two readings
SensorVals == {<<>>, <<1>>, <<2>>}
\* the column that is only plotted and described (FC1) or averaged last (FC2)
SecondVals == {<<1>>}
FlagVals == {<<0>>, <<1>>}
FlagDtypes == {"bool", "int64"}

NaN == <<>>
None == <<>>

(***************************************************************************)
(* Column bindings of the two report classes (the constructor arguments    *)
(* and the default output_col / hour-of-day column names).                 *)
(***************************************************************************)
FC1 == [name |-> "FC1", flag |-> "fc1_flag", s1 |-> "duct_static",
        s2 |-> "supply_vfd_speed", s3 |-> "duct_static_setpoint",
        hour |-> "hour_of_the_day_fc1"]
FC2 == [name |-> "FC2", flag |-> "fc2_flag", s1 |-> "mat",
        s2 |-> "rat", s3 |-> "oat",
        hour |-> "hour_of_the_day_fc2"]
Classes == {FC1, FC2}

(***************************************************************************)
(* pandas / Python primitives, computed as the libraries compute them.     *)
(***************************************************************************)
RECURSIVE NanSum(_)
\* Series.sum(): NaN / NaT cells are skipped; the sum of nothing is 0
NanSum(s) ==
    IF Len(s) = 0 THEN 0
    ELSE (IF Head(s) = NaN THEN 0 ELSE Head(s)[1]) + NanSum(Tail(s))

RECURSIVE Count(_)
\* the number of cells that are not NaN
Count(s) ==
    IF Len(s) = 0 THEN 0
    ELSE (IF Head(s) = NaN THEN 0 ELSE 1) + Count(Tail(s))

\* num/den (num >= 0, den > 0) rounded to the nearest integer, ties to even
RoundDiv(num, den) ==
    LET q == num \div den
        r == num % den
    IN  IF 2 * r < den THEN q
        ELSE IF 2 * r > den THEN q + 1
        ELSE IF q % 2 = 0 THEN q ELSE q + 1

\* round(num/den, 2), as integer hundredths
Round2(num, den) == RoundDiv(100 * num, den)

\* a difference taken towards the next row instead of the previous one
DiffForward(index) ==
    [i \in 1..Len(index) |->
        IF i = Len(index) THEN NaN ELSE <<index[i + 1] - index[i]>>]

\* index.to_series().diff(): row i holds t[i] - t[i-1]; row 1 holds NaT
Diff(index) ==
    [i \in 1..Len(index) |->
        IF i = 1 THEN NaN ELSE <<index[i] - index[i - 1]>>]

\* delta * df[output_col], elementwise; NaT times anything is NaT
Times(delta, flags) ==
    [i \in 1..Len(delta) |->
        IF delta[i] = NaN \/ flags[i] = NaN THEN NaN
        ELSE <<delta[i][1] * flags[i][1]>>]

\* col.where(df[output_col] == 1): NaN wherever the flag is not 1
Where(col, flags) ==
    [i \in 1..Len(col) |-> IF flags[i] = <<1>> THEN col[i] ELSE NaN]

\* a mean that answers 0 for a series with no defined cell
PercentOfZeroWhenEmpty(col) ==
    IF Count(col) = 0 THEN <<0>> ELSE <<Round2(100 * NanSum(col), Count(col))>>

\* round(100 * Series.mean(), 2): NaN for a series with no defined cell
PercentOf(col) ==
    IF Count(col) = 0 THEN NaN ELSE <<Round2(100 * NanSum(col), Count(col))>>

\* round(Series.mean(), 2)
MeanOf(col) ==
    IF Count(col) = 0 THEN NaN ELSE <<Round2(NanSum(col), Count(col))>>

RECURSIVE SumSq(_)
SumSq(s) ==
    IF Len(s) = 0 THEN 0
    ELSE (IF Head(s) = NaN THEN 0 ELSE Head(s)[1] * Head(s)[1]) + SumSq(Tail(s))

\* Series.std() (ddof = 1, NaN skipped): NaN with fewer than two defined
\* cells; otherwise n(n-1) times the sample variance, which is 0 exactly
\* when the standard deviation is 0
Std(col) ==
    IF Count(col) < 2 THEN NaN
    ELSE <<Count(col) * SumSq(col) - NanSum(col) * NanSum(col)>>

\* the index's hour-of-day component
HourOf(t) == t % 24

HasCol(d, c) == c \in DOMAIN d.cols

\* df[c] = values: the column is added, or replaced in place
SetCol(d, c, cells, dt) ==
    [d EXCEPT !.cols = [x \in (DOMAIN d.cols) \cup {c} |->
                            IF x = c THEN cells ELSE d.cols[x]],
              !.dtype = [x \in (DOMAIN d.dtype) \cup {c} |->
                            IF x = c THEN dt ELSE d.dtype[x]]]

\* df[output_col] = df[output_col].astype(int)
AstypeInt(d, c) == SetCol(d, c, d.cols[c], "int64")


(***************************************************************************)
(* Outcome of one call: the caller's dataset as the call leaves it, the    *)
(* returned value (None when the call raised) and the exception.  For      *)
(* create_report, doc is the local Document object when the call ended.    *)
(***************************************************************************)
Return(d, value, doc) == [df |-> d, ret |-> <<value>>, err |-> "none", doc |-> doc]

\* the exception caught and the document built so far handed back
RaiseReturningDocument(d, doc) ==
    [df |-> d, ret |-> <<doc>>, err |-> "KeyError", doc |-> doc]

\* df[c] on an absent column raises KeyError, which leaves the method
Raise(d, doc) == [df |-> d, ret |-> None, err |-> "KeyError", doc |-> doc]

(***************************************************************************)
(* summarize_fault_times                                                   *)
(***************************************************************************)
\* round(100 - percent_true) with the number of decimals left out
PercentFalseWholeNumber(pt) ==
    IF pt = NaN THEN NaN ELSE <<100 * RoundDiv(10000 - pt[1], 100)>>

\* percent_false = round(100 - percent_true, 2)
PercentFalse(pt) == IF pt = NaN THEN NaN ELSE <<Round2(10000 - pt[1], 100)>>

\* the five duration / percentage statistics, identical in both classes;
\* a boolean flag enters the product and the mean as 0 or 1
SummaryCore(d, flag) ==
    LET delta == Diff(d.index)
        percent_true == PercentOf(d.cols[flag])
    IN  [total_days     |-> Round2(NanSum(delta), 24),
         total_hours    |-> NanSum(delta),
         hours_mode     |-> NanSum(Times(delta, d.cols[flag])),
         percent_true   |-> percent_true,
         percent_false  |-> PercentFalse(percent_true)]

\* round(df[col].where(df[output_col] == 1).mean(), 2)
FlagTrueMean(d, col, flag) == MeanOf(Where(d.cols[col], d.cols[flag]))

FC1_summarize_fault_times(d) ==
    IF ~HasCol(d, FC1.flag) \/ ~HasCol(d, FC1.s1) THEN Raise(d, <<>>)
    ELSE Return(d,
                [core |-> SummaryCore(d, FC1.flag),
                 flag_true |-> <<FlagTrueMean(d, FC1.s1, FC1.flag)>>],
                <<>>)

FC2_summarize_fault_times(d) ==
    IF \E c \in {FC2.flag, FC2.s1, FC2.s2, FC2.s3} : ~HasCol(d, c)
    THEN Raise(d, <<>>)
    ELSE Return(d,
                [core |-> SummaryCore(d, FC2.flag),
                 \* flag_true_mat, flag_true_oat, flag_true_rat
                 flag_true |-> <<FlagTrueMean(d, FC2.s1, FC2.flag),
                                 FlagTrueMean(d, FC2.s3, FC2.flag),
                                 FlagTrueMean(d, FC2.s2, FC2.flag)>>],
                <<>>)

(***************************************************************************)
(* The render methods, as one call each.  The figure is described by its   *)
(* title, its panel count and the data drawn.                              *)
(***************************************************************************)
FC1_create_fan_plot(d) ==
    IF ~HasCol(d, FC1.flag) THEN Raise(d, <<>>)
    ELSE LET d1 == AstypeInt(d, FC1.flag)
         IN  IF ~HasCol(d1, FC1.s1) \/ ~HasCol(d1, FC1.s2) THEN Raise(d1, <<>>)
             ELSE Return(d1,
                         [title |-> "Fault Conditions 1 Plot", panels |-> 3,
                          data |-> <<d1.cols[FC1.s1], d1.cols[FC1.s2],
                                     d1.cols[FC1.flag]>>],
                         <<>>)

FC2_create_plot(d) ==
    IF ~HasCol(d, FC2.flag) THEN Raise(d, <<>>)
    ELSE LET d1 == AstypeInt(d, FC2.flag)
         IN  IF \E c \in {FC2.s1, FC2.s2, FC2.s3} : ~HasCol(d1, c)
             THEN Raise(d1, <<>>)
             ELSE Return(d1,
                         [title |-> "Fault Conditions 2 Plot", panels |-> 2,
                          data |-> <<d1.cols[FC2.s1], d1.cols[FC2.s2],
                                     d1.cols[FC2.s3], d1.cols[FC2.flag]>>],
                         <<>>)

\* Series.dropna()
DropNa(col) == SelectSeq(col, LAMBDA x : x # NaN)

\* df["hour_of_the_day_fcN"] = df.index.hour.where(df[output_col] == 1),
\* then a histogram of the defined hours
HistPlot(d, cfg, title) ==
    IF ~HasCol(d, cfg.flag) THEN Raise(d, <<>>)
    ELSE LET hours == [i \in 1..Len(d.index) |-> <<HourOf(d.index[i])>>]
             d1 == SetCol(d, cfg.hour, Where(hours, d.cols[cfg.flag]), "float64")
         IN  Return(d1,
                    [title |-> title, panels |-> 1,
                     data |-> <<DropNa(d1.cols[cfg.hour])>>],
                    <<>>)

FC1_create_hist_plot(d) == HistPlot(d, FC1, "Hour-Of-Day When Fault Flag 1 is TRUE")

FC2_create_hist_plot(d) == HistPlot(d, FC2, "Hour-Of-Day When Fault Flag 2 is TRUE")


(***************************************************************************)
(* create_report: the sections of the document, in the order of the        *)
(* add_heading / add_paragraph / add_picture calls.                        *)
(***************************************************************************)
Heading(tag) == [kind |-> "heading", tag |-> tag, msg |-> "", vals |-> <<>>]

Paragraph(tag) == [kind |-> "paragraph", tag |-> tag, msg |-> "", vals |-> <<>>]

Picture(tag) == [kind |-> "picture", tag |-> tag, msg |-> "", vals |-> <<>>]

\* a paragraph of style "List Bullet" with one run
Bullet(tag, msg, vals) == [kind |-> "bullet", tag |-> tag, msg |-> msg, vals |-> vals]

\* title heading, descriptive paragraph, definition picture, "Dataset Plot"
Front ==
    <<Heading("title"), Paragraph("description"), Picture("definition"),
      Heading("Dataset Plot")>>

\* the percentage bullets written ahead of the duration bullets
StatBulletsPercentFirst(core) ==
    <<Bullet("percent_true", "", <<core.percent_true>>),
      Bullet("percent_false", "", <<core.percent_false>>),
      Bullet("total_days", "", <<(<<core.total_days>>)>>),
      Bullet("total_hours", "", <<(<<core.total_hours>>)>>),
      Bullet("hours_mode", "", <<(<<core.hours_mode>>)>>)>>

\* the five statistic bullets
StatBullets(core) ==
    <<Bullet("total_days", "", <<(<<core.total_days>>)>>),
      Bullet("total_hours", "", <<(<<core.total_hours>>)>>),
      Bullet("hours_mode", "", <<(<<core.hours_mode>>)>>),
      Bullet("percent_true", "", <<core.percent_true>>),
      Bullet("percent_false", "", <<core.percent_false>>)>>

\* str(df[col].describe()): the count and the mean stand for the block
Describe(d, col) ==
    Bullet("describe", col, <<(<<Count(d.cols[col])>>), MeanOf(d.cols[col])>>)

\* the report's last paragraph, "Report generated: ..."
Footer == Paragraph("footer")

\* percent_true > 5.0, in hundredths of a percent
FC1_PercentThreshold == 500

\* percent_true < 5, in hundredths of a percent
FC2_PercentThreshold == 500

\* the comparison written >= instead of >
FC1_PercentMessageAtLeast(pt) ==
    IF pt # NaN /\ pt[1] >= 500
    THEN "poor_performance" ELSE "good_performance"

\* if percent_true > 5.0: ... else: ...   (NaN > 5.0 is False)
FC1_PercentMessage(pt) ==
    IF pt # NaN /\ pt[1] > FC1_PercentThreshold
    THEN "poor_performance" ELSE "good_performance"

\* if df[setpoint].std() == 0: ... else: ...   (NaN == 0 is False)
FC1_ResetMessage(std) ==
    IF std # NaN /\ std[1] = 0 THEN "no_reset_detected" ELSE "reset_detected"

\* if percent_true < 5: ... else: ...   (NaN < 5 is False)
FC2_PercentMessage(pt) ==
    IF pt # NaN /\ pt[1] < FC2_PercentThreshold
    THEN "out_of_calibration" ELSE "within_calibration"

\* if not math.isnan(flag_true_duct_static): one bullet
FC1_Commentary(flag_true) ==
    IF flag_true[1] # NaN THEN <<Bullet("commentary", "", flag_true)>> ELSE <<>>

\* if not math.isnan(flag_true_mat): one bullet naming mat, oat and rat
FC2_Commentary(flag_true) ==
    IF flag_true[1] # NaN THEN <<Bullet("commentary", "", flag_true)>> ELSE <<>>

\* "Suggestions based on data analysis", its bullets, and the footer
FC1_Tail(d, core) ==
    <<Heading("Suggestions based on data analysis"),
      Bullet("percent_message", FC1_PercentMessage(core.percent_true), <<>>),
      Bullet("reset_message", FC1_ResetMessage(Std(d.cols[FC1.s3])), <<>>),
      Footer>>

FC2_Tail(core) ==
    <<Heading("Suggestions based on data analysis"),
      Bullet("percent_message", FC2_PercentMessage(core.percent_true), <<>>),
      Footer>>

FC1_create_report(d) ==
    LET plot == FC1_create_fan_plot(d)
    IN  IF plot.err # "none" THEN Raise(plot.df, Front)
        ELSE
        LET summ == FC1_summarize_fault_times(plot.df)
            doc1 == Front \o <<Picture("plot"), Heading("Dataset Statistics")>>
        IN  IF summ.err # "none" THEN Raise(summ.df, doc1)
            ELSE
            LET s == summ.ret[1]
                doc2 == doc1 \o StatBullets(s.core)
                             \o <<Paragraph("blank"), Heading("Time-of-day Histogram Plots")>>
                hist == FC1_create_hist_plot(summ.df)
            IN  IF hist.err # "none" THEN Raise(hist.df, doc2)
                ELSE
                LET doc3 == doc2 \o <<Picture("histogram")>>
                                 \o FC1_Commentary(s.flag_true)
                                 \o <<Paragraph("blank"),
                                      Heading("VFD Speed Statistics"),
                                      Describe(hist.df, FC1.s2),
                                      Heading("Duct Pressure Statistics"),
                                      Describe(hist.df, FC1.s1),
                                      Heading("Duct Pressure Setpoints Statistics")>>
                IN  IF ~HasCol(hist.df, FC1.s3)
                    \* the bullet paragraph exists before df[setpoint] raises
                    THEN Raise(hist.df, doc3 \o <<Bullet("describe", FC1.s3, <<>>)>>)
                    ELSE LET doc == doc3 \o <<Describe(hist.df, FC1.s3)>>
                                          \o FC1_Tail(hist.df, s.core)
                         IN  Return(hist.df, doc, doc)

FC2_create_report(d) ==
    LET plot == FC2_create_plot(d)
    IN  IF plot.err # "none" THEN Raise(plot.df, Front)
        ELSE
        LET summ == FC2_summarize_fault_times(plot.df)
            doc1 == Front \o <<Picture("plot"), Heading("Dataset Statistics")>>
        IN  IF summ.err # "none" THEN Raise(summ.df, doc1)
            ELSE
            LET s == summ.ret[1]
                doc2 == doc1 \o StatBullets(s.core)
                             \o <<Paragraph("blank"), Heading("Time-of-day Histogram Plots")>>
                hist == FC2_create_hist_plot(summ.df)
            IN  IF hist.err # "none" THEN Raise(hist.df, doc2)
                ELSE
                LET doc == doc2 \o <<Picture("histogram")>>
                                \o FC2_Commentary(s.flag_true)
                                \o <<Paragraph("blank"),
                                     Heading("Mix Temp Statistics"),
                                     Describe(hist.df, FC2.s1),
                                     Heading("Return Temp Statistics"),
                                     Describe(hist.df, FC2.s2),
                                     Heading("Outside Temp Statistics"),
                                     Describe(hist.df, FC2.s3)>>
                                \o FC2_Tail(s.core)
                IN  Return(hist.df, doc, doc)

(***************************************************************************)
(* The datasets a caller passes in.  Exhaustive, Timing, Scenario and      *)
(* Missing are the bounded families the model draws them from.             *)
(***************************************************************************)
\* timestamps, from hour 0, with the given gaps
Index(gaps) ==
    LET t[i \in 1..(Len(gaps) + 1)] == IF i = 1 THEN 0 ELSE t[i - 1] + gaps[i - 1]
    IN  [i \in 1..(Len(gaps) + 1) |-> t[i]]

MkDF(cfg, index, f, a, b, c, dt) ==
    [index |-> index,
     cols  |-> (cfg.flag :> f @@ cfg.s1 :> a @@ cfg.s2 :> b @@ cfg.s3 :> c),
     dtype |-> (cfg.flag :> dt @@ cfg.s1 :> "float64" @@ cfg.s2 :> "float64"
                @@ cfg.s3 :> "float64")]

\* every hourly dataset of up to MaxRows rows over the bounded cell values
Exhaustive(cfg) ==
    UNION {
        {MkDF(cfg, [i \in 1..n |-> i - 1], f, a, b, c, "int64") :
            f \in [1..n -> FlagVals], a \in [1..n -> SensorVals],
            b \in [1..n -> SecondVals], c \in [1..n -> SensorVals]}
        : n \in 0..MaxRows}

\* every spacing and flagging of up to MaxRows + 1 rows, every sensor
\* constant 1, the flag column boolean or integer
Timing(cfg) ==
    UNION {
        {MkDF(cfg, Index(g), f, [i \in 1..n |-> <<1>>], [i \in 1..n |-> <<1>>],
              [i \in 1..n |-> <<1>>], dt) :
            g \in [1..(n - 1) -> 1..MaxGap], f \in [1..n -> FlagVals],
            dt \in FlagDtypes}
        : n \in 1..(MaxRows + 1)}

\* n hourly rows, the flag set on the first k, every sensor constant 1
ScenarioDF(cfg, n, k, dt) ==
    MkDF(cfg, [i \in 1..n |-> i - 1],
         [i \in 1..n |-> IF i <= k THEN <<1>> ELSE <<0>>],
         [i \in 1..n |-> <<1>>], [i \in 1..n |-> <<1>>], [i \in 1..n |-> <<1>>],
         dt)

Scenario(cfg) ==
    UNION {{ScenarioDF(cfg, n, k, dt) : k \in 0..n, dt \in FlagDtypes}
           : n \in 1..MaxLong}

DropCol(d, c) ==
    [d EXCEPT !.cols = [x \in (DOMAIN d.cols) \ {c} |-> d.cols[x]],
              !.dtype = [x \in (DOMAIN d.dtype) \ {c} |-> d.dtype[x]]]

\* small datasets that lack one of the required columns
Missing(cfg) ==
    UNION {{DropCol(ScenarioDF(cfg, n, k, dt), c) :
                k \in 0..n, dt \in FlagDtypes,
                c \in {cfg.flag, cfg.s1, cfg.s2, cfg.s3}}
           : n \in 1..MaxRows}

Datasets(cfg) ==
    Exhaustive(cfg) \cup Timing(cfg) \cup Scenario(cfg) \cup Missing(cfg)

(***************************************************************************)
(* One report object and one dataset; the caller calls the four methods    *)
(* in any order, each call on the dataset as the previous call left it.    *)
(***************************************************************************)
RenderIdle ==
    /\ pc = <<>> /\ kind = <<>> /\ myfig = <<>> /\ image = <<>>
    /\ gcf = 0 /\ figs = <<>>

Init ==
    /\ self \in Classes
    /\ df \in Datasets(self)
    /\ df0 = df
    /\ op = "init"
    /\ ret = None
    /\ err = "none"
    /\ document = <<>>
    /\ RenderIdle

\* the call's outcome becomes the caller's view
Apply(r) ==
    /\ df' = r.df
    /\ ret' = r.ret
    /\ err' = r.err
    /\ document' = r.doc
    /\ UNCHANGED <<self, df0, renderVars>>

CreatePlot ==
    /\ op' = "create_plot"
    /\ Apply(IF self = FC1 THEN FC1_create_fan_plot(df) ELSE FC2_create_plot(df))

Summarize ==
    /\ op' = "summarize_fault_times"
    /\ Apply(IF self = FC1 THEN FC1_summarize_fault_times(df)
             ELSE FC2_summarize_fault_times(df))

CreateHist ==
    /\ op' = "create_hist_plot"
    /\ Apply(IF self = FC1 THEN FC1_create_hist_plot(df)
             ELSE FC2_create_hist_plot(df))

CreateReport ==
    /\ op' = "create_report"
    /\ Apply(IF self = FC1 THEN FC1_create_report(df) ELSE FC2_create_report(df))

Next == CreatePlot \/ Summarize \/ CreateHist \/ CreateReport

Spec == Init /\ [][Next]_vars


(***************************************************************************)
(* Rendering, statement by statement.  matplotlib.pyplot keeps one         *)
(* process-wide registry of figures and one current figure: plt.subplots   *)
(* registers a new figure and makes it current; plt.title, plt.legend and  *)
(* plt.tight_layout act on whatever figure is current; the methods of an   *)
(* Axes object act on that object's own figure.  Two report invocations    *)
(* (threads), each with a dataset of its own, run the render statements of *)
(* create_report in any interleaving.  The data effects of the calls are   *)
(* those of the one-call operators above.                                  *)
(***************************************************************************)
Threads == {1, 2}

PlotPanels(k) == IF k = "FC1" THEN 3 ELSE 2

\* a statement's effect on the figure it reaches
Applied(stmt, t) == [stmt |-> stmt, kind |-> kind[t], by |-> t]

\* the statement acts on figure id
ApplyTo(id, stmt, t) ==
    figs' = [figs EXCEPT ![id].applied = Append(@, Applied(stmt, t))]

Goto(t, label) == pc' = [pc EXCEPT ![t] = label]

\* fig, axes = plt.subplots(...): a new registered figure, made current
NewFigure(t, panels) ==
    /\ figs' = Append(figs, [owner |-> t, panels |-> panels, applied |-> <<>>])
    /\ gcf' = Len(figs) + 1
    /\ myfig' = [myfig EXCEPT ![t] = Len(figs) + 1]

\* fig, (ax1, ...) = plt.subplots(n, 1, figsize=(25, 8))
PlotSubplots(t) ==
    /\ pc[t] = "subplots"
    /\ NewFigure(t, PlotPanels(kind[t]))
    /\ Goto(t, "title")
    /\ UNCHANGED <<reportVars, kind, image>>

\* plt.title('Fault Conditions N Plot')
PltTitle(t) ==
    /\ pc[t] = "title"
    /\ ApplyTo(gcf, "title", t)
    /\ Goto(t, "axes")
    /\ UNCHANGED <<reportVars, kind, myfig, image, gcf>>

\* ax1.plot(...) ... ax3.legend(loc='best'): the thread's own axes
AxesDraw(t) ==
    /\ pc[t] = "axes"
    /\ ApplyTo(myfig[t], "axes", t)
    /\ Goto(t, "legend")
    /\ UNCHANGED <<reportVars, kind, myfig, image, gcf>>

\* plt.legend()
PltLegend(t) ==
    /\ pc[t] = "legend"
    /\ ApplyTo(gcf, "legend", t)
    /\ Goto(t, "tight_layout")
    /\ UNCHANGED <<reportVars, kind, myfig, image, gcf>>

\* plt.tight_layout()
PltTightLayout(t) ==
    /\ pc[t] = "tight_layout"
    /\ ApplyTo(gcf, "tight_layout", t)
    /\ Goto(t, "savefig")
    /\ UNCHANGED <<reportVars, kind, myfig, image, gcf>>

\* return fig; fig.savefig(fan_plot_image, format="png")
SaveFig(t) ==
    /\ pc[t] = "savefig"
    /\ image' = [image EXCEPT ![t] = Append(@, figs[myfig[t]].applied)]
    /\ Goto(t, "hist_subplots")
    /\ UNCHANGED <<reportVars, kind, myfig, gcf, figs>>

\* fig, ax = plt.subplots(tight_layout=True, figsize=(25, 8))
HistSubplots(t) ==
    /\ pc[t] = "hist_subplots"
    /\ NewFigure(t, 1)
    /\ Goto(t, "hist_axes")
    /\ UNCHANGED <<reportVars, kind, image>>

\* ax.hist(...); ax.set_xlabel; ax.set_ylabel; ax.set_title
HistDraw(t) ==
    /\ pc[t] = "hist_axes"
    /\ ApplyTo(myfig[t], "hist_axes", t)
    /\ Goto(t, "hist_savefig")
    /\ UNCHANGED <<reportVars, kind, myfig, image, gcf>>

\* return fig; histogram_plot.savefig(histogram_plot_image, format="png")
HistSaveFig(t) ==
    /\ pc[t] = "hist_savefig"
    /\ image' = [image EXCEPT ![t] = Append(@, figs[myfig[t]].applied)]
    /\ Goto(t, "done")
    /\ UNCHANGED <<reportVars, kind, myfig, gcf, figs>>

InitRender ==
    /\ self = FC1 /\ df = <<>> /\ df0 = <<>> /\ op = "init"
    /\ ret = None /\ err = "none" /\ document = <<>>
    /\ pc = [t \in Threads |-> "subplots"]
    /\ kind \in [Threads -> {"FC1", "FC2"}]
    /\ myfig = [t \in Threads |-> 0]
    /\ image = [t \in Threads |-> <<>>]
    /\ gcf = 0
    /\ figs = <<>>

NextRender ==
    \E t \in Threads :
        \/ PlotSubplots(t)
        \/ PltTitle(t)
        \/ AxesDraw(t)
        \/ PltLegend(t)
        \/ PltTightLayout(t)
        \/ SaveFig(t)
        \/ HistSubplots(t)
        \/ HistDraw(t)
        \/ HistSaveFig(t)

SpecRender == InitRender /\ [][NextRender]_vars

(***************************************************************************)
(* Properties.                                                             *)
(***************************************************************************)
Summarized == op = "summarize_fault_times" /\ err = "none"

Reported == op = "create_report" /\ err = "none"

Rows == Len(df.index)

\* the positions of the document's sections that carry a tag
SectionsWith(doc, tag) == {i \in 1..Len(doc) : doc[i].tag = tag}

TheSection(doc, tag) == doc[CHOOSE i \in SectionsWith(doc, tag) : TRUE]

RECURSIVE IntervalHours(_, _, _, _)
\* the hours of the intervals (row i, row i+1), i >= from, each multiplied
\* by the flag of row i + at  (at = 0: the earlier row, at = 1: the later)
IntervalHours(index, flags, at, from) ==
    IF from >= Len(index) THEN 0
    ELSE (index[from + 1] - index[from]) * flags[from + at][1]
         + IntervalHours(index, flags, at, from + 1)

\* C1 (as amended): the flagged elapsed hours returned by
\* summarize_fault_times are the sum, over the intervals between a sample
\* and its successor, of the interval's length times the flag at the
\* interval's trailing (later) sample; the first row's undefined delta adds
\* nothing.
C1_FlaggedHoursWeightTrailingSample ==
    Summarized =>
        ret[1].core.hours_mode = IntervalHours(df.index, df.cols[self.flag], 1, 1)

\* C1 (as stated): ... times the flag at the interval's leading sample.
C1_FlaggedHoursWeightLeadingSample ==
    Summarized =>
        ret[1].core.hours_mode = IntervalHours(df.index, df.cols[self.flag], 0, 1)

\* 24 hourly rows flagged at hours 0, 1, 2: the two intervals that end at
\* hours 1 and 2 are counted
C1_Witness ==
    /\ Summarized
    /\ df = ScenarioDF(self, 24, 3, "int64")
    /\ ret[1].core.hours_mode = 2
    /\ ret[1].core.total_hours = 23

\* the distance of pt hundredths from 100 * ones / rows percent is at most
\* half a hundredth
NearestHundredth(pt, ones, rows) ==
    /\ 2 * (pt * rows - 10000 * ones) <= rows
    /\ 2 * (10000 * ones - pt * rows) <= rows

\* C2 (as amended): for a flag column of at least one row, percent_true is
\* the column's mean times 100 rounded to two decimals, and percent_true +
\* percent_false = 100.
C2_PercentsSumTo100WhenRowsExist ==
    (Summarized /\ Rows >= 1) =>
        LET core == ret[1].core
        IN  /\ core.percent_true # NaN /\ core.percent_false # NaN
            /\ core.percent_true[1] + core.percent_false[1] = 10000
            /\ NearestHundredth(core.percent_true[1],
                                NanSum(df.cols[self.flag]), Rows)

\* C2 (as stated): for any flag column, zero rows included, the two
\* percentages sum to 100.
C2_PercentsSumTo100Always ==
    Summarized =>
        LET core == ret[1].core
        IN  /\ core.percent_true # NaN /\ core.percent_false # NaN
            /\ core.percent_true[1] + core.percent_false[1] = 10000

\* one flagged row out of three: 33.33 and 66.67
C2_Witness ==
    /\ Summarized
    /\ Rows = 3
    /\ ret[1].core.percent_true = <<3333>>
    /\ ret[1].core.percent_false = <<6667>>

\* the percent_true value printed in the report's fourth statistic bullet
ReportedPercent == TheSection(document, "percent_true").vals[1]

PercentMessage == TheSection(document, "percent_message").msg

\* C3 (as amended): every report has exactly one percent-flagged message;
\* FC1 gives "poor performance" iff percent_true > 5.0 and "good
\* performance" otherwise (percent_true <= 5.0, or NaN for a dataset of no
\* rows); FC2 gives "out of calibration" iff percent_true < 5.0 and
\* "within calibration" otherwise (percent_true >= 5.0, or NaN).
C3_PercentMessageByThreshold ==
    Reported =>
        /\ Cardinality(SectionsWith(document, "percent_message")) = 1
        /\ self = FC1 =>
            /\ PercentMessage \in {"poor_performance", "good_performance"}
            /\ PercentMessage = "poor_performance"
                  <=> (ReportedPercent # NaN /\ ReportedPercent[1] > 500)
            /\ PercentMessage = "good_performance"
                  <=> (ReportedPercent = NaN \/ ReportedPercent[1] <= 500)
        /\ self = FC2 =>
            /\ PercentMessage \in {"out_of_calibration", "within_calibration"}
            /\ PercentMessage = "out_of_calibration"
                  <=> (ReportedPercent # NaN /\ ReportedPercent[1] < 500)
            /\ PercentMessage = "within_calibration"
                  <=> (ReportedPercent = NaN \/ ReportedPercent[1] >= 500)

\* C3 (as stated): "good performance" iff percent_true <= 5.0 and "within
\* calibration" iff percent_true >= 5.0, in every report; a comparison
\* with NaN is false.
C3_PercentMessageIffComparison ==
    Reported =>
        /\ Cardinality(SectionsWith(document, "percent_message")) = 1
        /\ self = FC1 =>
            /\ PercentMessage = "poor_performance"
                  <=> (ReportedPercent # NaN /\ ReportedPercent[1] > 500)
            /\ PercentMessage = "good_performance"
                  <=> (ReportedPercent # NaN /\ ReportedPercent[1] <= 500)
        /\ self = FC2 =>
            /\ PercentMessage = "out_of_calibration"
                  <=> (ReportedPercent # NaN /\ ReportedPercent[1] < 500)
            /\ PercentMessage = "within_calibration"
                  <=> (ReportedPercent # NaN /\ ReportedPercent[1] >= 500)

\* FC1 at exactly 5.0 percent (1 flagged row of 20): good performance
C3_Witness ==
    /\ Reported
    /\ self = FC1
    /\ ReportedPercent = <<500>>
    /\ PercentMessage = "good_performance"

\* every row of the column holds the same defined value
ConstantColumn(col) ==
    /\ Len(col) >= 1
    /\ \A i \in 1..Len(col) : col[i] # NaN /\ col[i] = col[1]

\* the column takes at least two distinct defined values
VaryingColumn(col) ==
    \E i, j \in 1..Len(col) : col[i] # NaN /\ col[j] # NaN /\ col[i] # col[j]

\* C4: an FC1 report carries exactly one reset message: "no reset detected
\* (bad)" when the setpoint column is constant over all its rows (one row
\* included), "reset detected (good)" when it takes two distinct values.
C4_ResetMessageByConstancy ==
    (Reported /\ self = FC1) =>
        /\ Cardinality(SectionsWith(document, "reset_message")) = 1
        /\ ConstantColumn(df.cols[FC1.s3])
              => TheSection(document, "reset_message").msg = "no_reset_detected"
        /\ VaryingColumn(df.cols[FC1.s3])
              => TheSection(document, "reset_message").msg = "reset_detected"

SomeRowFlagged == \E i \in 1..Rows : df.cols[self.flag][i] = <<1>>

HasCommentary == SectionsWith(document, "commentary") # {}

\* the sections that follow the commentary in every report
LaterSectionsPresent ==
    /\ Cardinality(SectionsWith(document, "describe")) = 3
    /\ SectionsWith(document, "Suggestions based on data analysis") # {}
    /\ document[Len(document)] = Footer

\* C5: the commentary is in the report iff the conditional mean is not
\* NaN, that is (on a sensor column without gaps) iff some row is flagged;
\* when it is skipped the later sections are still appended and the
\* document is returned; the FC2 commentary never shows a NaN mean.
C5_CommentaryOnlyWithDefinedMeans ==
    Reported =>
        /\ HasCommentary
              <=> FlagTrueMean(df, self.s1, self.flag) # NaN
        /\ (\A i \in 1..Rows : df.cols[self.s1][i] # NaN)
              => (HasCommentary <=> SomeRowFlagged)
        /\ LaterSectionsPresent /\ ret = <<document>>
        /\ (self = FC2 /\ HasCommentary)
              => \A k \in 1..3 : TheSection(document, "commentary").vals[k] # NaN

\* the place of a section kind in the fixed order; 0 for a sub-heading or
\* a blank paragraph, which the order does not list
Rank(sec) ==
    CASE sec.tag = "title" /\ sec.kind = "heading" -> 1
      [] sec.tag = "description" -> 2
      [] sec.tag = "definition" -> 3
      [] sec.tag = "plot" -> 4
      [] sec.tag = "total_days" -> 5
      [] sec.tag = "total_hours" -> 6
      [] sec.tag = "hours_mode" -> 7
      [] sec.tag = "percent_true" -> 8
      [] sec.tag = "percent_false" -> 9
      [] sec.tag = "histogram" -> 10
      [] sec.tag = "commentary" -> 11
      [] sec.tag = "describe" -> 12
      [] sec.tag \in {"Suggestions based on data analysis", "percent_message", "reset_message"} -> 13
      [] sec.tag = "footer" -> 14
      [] OTHER -> 0

\* C6: in every returned document the sections come in the fixed order:
\* title, description, reference image, plot, the five statistic bullets
\* (all present), histogram, the optional commentary, the three
\* descriptive-statistics blocks, the suggestions, and the footer last.
C6_SectionsInFixedOrder ==
    Reported =>
        LET listed == SelectSeq(document, LAMBDA sec : Rank(sec) > 0)
        IN  /\ \A i, j \in 1..Len(listed) :
                  i < j => /\ Rank(listed[i]) <= Rank(listed[j])
                           /\ Rank(listed[i]) = Rank(listed[j])
                                 => Rank(listed[i]) \in {12, 13}
            /\ \A r \in (1..14) \ {11} : \E i \in 1..Len(listed) : Rank(listed[i]) = r
            /\ Rank(document[1]) = 1
            /\ Rank(document[Len(document)]) = 14
            /\ Cardinality(SectionsWith(document, "describe")) = 3
            /\ \A i \in 1..Len(document) :
                  Rank(document[i]) \in 5..9 => document[i].vals # <<>>

C6_Witness ==
    /\ Reported
    /\ HasCommentary
    /\ Rows = 2
    /\ document[Len(document)] = Footer

Required(cfg) == {cfg.flag, cfg.s1, cfg.s2, cfg.s3}

ColumnMissing == \E c \in Required(self) : ~HasCol(df, c)

\* C7 (as amended): create_report on a dataset that lacks a required
\* column ends with an error and returns no document; the sections added
\* before the first use of the missing column (at least the title heading,
\* the descriptive paragraph, the reference image and the "Dataset Plot"
\* heading) were appended to the document object that the error discards.
C7_MissingColumnReturnsNoDocument ==
    (op = "create_report" /\ ColumnMissing) =>
        /\ err = "KeyError"
        /\ ret = None
        /\ Len(document) >= Len(Front)
        /\ SubSeq(document, 1, Len(Front)) = Front
        /\ SectionsWith(document, "footer") = {}

\* C7 (as stated): ... aborts before any section has been appended.
C7_MissingColumnBeforeAnySection ==
    (op = "create_report" /\ ColumnMissing) =>
        /\ err = "KeyError"
        /\ ret = None
        /\ document = <<>>

\* the setpoint column is missing: the error comes after the histogram
C7_Witness ==
    /\ op = "create_report"
    /\ self = FC1
    /\ ~HasCol(df, FC1.s3)
    /\ err = "KeyError" /\ ret = None
    /\ SectionsWith(document, "histogram") # {}

\* C8: create_report on a dataset of zero rows with every required column
\* raises nothing and returns the complete document: duration totals 0,
\* both percentages and the conditional means NaN, no commentary, and the
\* statistic bullets, histogram, suggestions and footer present; on a
\* dataset of one row the total and flagged durations are 0.
C8_EmptyAndSingleRowDatasets ==
    /\ (op = "create_report" /\ Rows = 0 /\ ~ColumnMissing) =>
          /\ err = "none" /\ ret = <<document>>
          /\ TheSection(document, "total_days").vals = <<(<<0>>)>>
          /\ TheSection(document, "total_hours").vals = <<(<<0>>)>>
          /\ TheSection(document, "hours_mode").vals = <<(<<0>>)>>
          /\ TheSection(document, "percent_true").vals = <<NaN>>
          /\ TheSection(document, "percent_false").vals = <<NaN>>
          /\ ~HasCommentary
          /\ SectionsWith(document, "histogram") # {}
          /\ LaterSectionsPresent
    /\ (op = "summarize_fault_times" /\ Rows = 0 /\ ~ColumnMissing) =>
          /\ err = "none"
          /\ ret[1].core.percent_true = NaN /\ ret[1].core.percent_false = NaN
          /\ \A k \in 1..Len(ret[1].flag_true) : ret[1].flag_true[k] = NaN
          /\ ret[1].core.total_hours = 0 /\ ret[1].core.total_days = 0
    /\ (op = "summarize_fault_times" /\ Rows = 1 /\ ~ColumnMissing) =>
          /\ err = "none"
          /\ ret[1].core.total_hours = 0 /\ ret[1].core.total_days = 0
          /\ ret[1].core.hours_mode = 0

C8_Witness ==
    /\ op = "create_report" /\ Rows = 0 /\ ~ColumnMissing
    /\ ret = <<document>>
    /\ Len(document) > 0

\* C9: whatever was called, the dataset differs from the caller's original
\* only by the hour-of-day column: every original column keeps its values
\* and its value type.
C9_DatasetOnlyGainsHourColumn ==
    /\ \A c \in DOMAIN df0.cols :
          /\ HasCol(df, c)
          /\ df.cols[c] = df0.cols[c]
          /\ df.dtype[c] = df0.dtype[c]
    /\ (DOMAIN df.cols) \ (DOMAIN df0.cols) \subseteq {self.hour}
    /\ df.index = df0.index


\* the image a render call produces when its invocation runs alone
AlonePlotImage(t) ==
    <<Applied("title", t), Applied("axes", t), Applied("legend", t),
      Applied("tight_layout", t)>>

AloneHistImage(t) == <<Applied("hist_axes", t)>>

\* C10: under any interleaving of two invocations, every title, legend and
\* layout step reaches the figure that the same invocation created, every
\* image is the one the invocation produces alone, and once the render
\* calls have returned no figure is left in the shared registry.
C10_RenderCallsAreIsolated ==
    /\ \A id \in 1..Len(figs) :
          \A k \in 1..Len(figs[id].applied) :
              figs[id].applied[k].by = figs[id].owner
    /\ \A t \in Threads :
          /\ Len(image[t]) >= 1 => image[t][1] = AlonePlotImage(t)
          /\ Len(image[t]) >= 2 => image[t][2] = AloneHistImage(t)
    /\ (\A t \in Threads : pc[t] = "done") => figs = <<>>

====
